---------------------------- MODULE Spec2Model ----------------------------
(***************************************************************************)
(* A model of hatchkit: src/hatchkit/gh.py (the subprocess wrappers and    *)
(* GraphQL helpers), src/hatchkit/pr.py (the pr commands) and the init     *)
(* command of src/hatchkit/cli.py with the files it writes.                *)
(*                                                                         *)
(* The tool is a one-shot command line program.  One action is one call of *)
(* a function of gh.py or one invocation of a command; the outside world   *)
(* (is gh on PATH, what the child process does, what the service answers)  *)
(* is the action's input, drawn from small sets.  Only the files and       *)
(* directories init works on outlast an invocation.                        *)
(*                                                                         *)
(* Text is a sequence of strings.  Text the code inspects character by     *)
(* character (a remote URL, a process's stderr) is a sequence of one       *)
(* character strings; fixed messages are single fragments.  A process's    *)
(* standard output that the code hands to json.loads is a document: either *)
(* text that is not JSON, or the JSON value the text denotes.              *)
(***************************************************************************)
EXTENDS Integers, Sequences, FiniteSets, TLC

VARIABLES
    op,      \* the function or command of the last call ("none" at start)
    args,    \* its arguments and what the outside world answered
    result,  \* how the call ended: a returned value or a raised exception
    calls,   \* shutil.which and subprocess.run calls of the call, in order
    out,     \* what the call printed, in order, each with its stream
    steps,   \* the service calls of a pr command with their results, in order
    fs,      \* the files init may write: for each path, whether it exists and its text
    dirs,    \* the target directories that exist
    runs,    \* the invocations of init so far
    edits    \* the files the user has written by hand so far

\* what outlasts an invocation
disk == <<fs, dirs, runs, edits>>

vars == <<op, args, result, calls, out, steps, fs, dirs, runs, edits>>

---------------------------------------------------------------------------
(* Bounds of the model.                                                    *)

\* the longest sequence of review threads (or checks) a response carries
MaxThreads == 3
\* the longest remote path, in tokens, after the host part of the URL
MaxSegs == 4
\* the most variables of a GraphQL call
MaxVars == 2
\* the most invocations of init in one behaviour
MaxRuns == 2
\* the most files the user writes by hand in one behaviour
MaxEdits == 1

---------------------------------------------------------------------------
(* Text.                                                                   *)

Whitespace == {" ", "\n", "\t"}

RECURSIVE LStrip(_)
\* str.lstrip(): leading whitespace removed
LStrip(s) ==
    IF s # <<>> /\ Head(s) \in Whitespace THEN LStrip(Tail(s)) ELSE s

RECURSIVE RStrip(_)
\* str.rstrip(): trailing whitespace removed
RStrip(s) ==
    IF s # <<>> /\ s[Len(s)] \in Whitespace
    THEN RStrip(SubSeq(s, 1, Len(s) - 1))
    ELSE s

\* str.strip()
Strip(s) == RStrip(LStrip(s))

Digits == <<"0", "1", "2", "3", "4", "5", "6", "7", "8", "9">>

RECURSIVE NatToStr(_)
NatToStr(n) ==
    IF n < 10 THEN <<Digits[n + 1]>>
    ELSE NatToStr(n \div 10) \o <<Digits[(n % 10) + 1]>>

\* str(n) of an int, as an f-string renders it
IntToStr(n) == IF n < 0 THEN <<"-">> \o NatToStr(0 - n) ELSE NatToStr(n)

RECURSIVE Join(_, _)
\* sep.join(parts)
Join(parts, sep) ==
    IF parts = <<>> THEN <<>>
    ELSE IF Len(parts) = 1 THEN parts[1]
    ELSE parts[1] \o sep \o Join(Tail(parts), sep)

---------------------------------------------------------------------------
(* Outcomes of a call, and what a call leaves behind.                      *)

\* a normal return
Return(v) == [kind |-> "return", value |-> v]
\* raise typer.Exit(code)
Exit(code) == [kind |-> "Exit", code |-> code]
\* raise GhError(msg)
GhError(msg) == [kind |-> "GhError", msg |-> msg]
\* an exception of the standard library that the code does not catch
Foreign(name) == [kind |-> name]

None == [none |-> TRUE]

\* rich's print: writes to the standard output
Rprint(text) == [stream |-> "stdout", via |-> "rprint", text |-> text]

\* what a function did: its outcome, the external calls it made, its prints
Did(res, cs, o) == [res |-> res, calls |-> cs, out |-> o]

\* f and then g, where g runs only if f returned
Then(f, g) ==
    IF f.res.kind = "return"
    THEN Did(g.res, f.calls \o g.calls, f.out \o g.out)
    ELSE f

Which == [ev |-> "which", name |-> "gh"]
Run(argv) == [ev |-> "run", argv |-> argv, timeout |-> 30]

---------------------------------------------------------------------------
(* gh.py: the helpers.                                                     *)

\* a fault of the check: the result of shutil.which ignored
require_gh_Unchecked(ghOnPath) == Did(Return(None), <<Which>>, <<>>)

\* require_gh: exits when shutil.which("gh") finds nothing
require_gh(ghOnPath) ==
    IF ~ghOnPath
    THEN Did(Exit(1), <<Which>>,
             <<Rprint(<<"Error: 'gh' CLI not found. Install it from https://cli.github.com/">>)>>)
    ELSE Did(Return(None), <<Which>>, <<>>)

\* a fault of the message: stderr taken as it is, not stripped
FailureMessage_Unstripped(proc) ==
    IF proc.stderr # <<>> THEN proc.stderr
    ELSE <<"Command failed with exit code ">> \o IntToStr(proc.returncode)

\* the message of the GhError of a process that exited non-zero
FailureMessage(proc) ==
    LET stderr == Strip(proc.stderr)
    IN  IF stderr # <<>> THEN stderr
        ELSE <<"Command failed with exit code ">> \o IntToStr(proc.returncode)

\* a fault of the handler: FileNotFoundError not caught, so it propagates
_run_command_NotFoundRaises(argv, proc) ==
    CASE proc.kind = "notfound" ->
            Did(Foreign("FileNotFoundError"), <<Run(argv)>>, <<>>)
      [] proc.kind = "timeout" ->
            Did(Foreign("TimeoutExpired"), <<Run(argv)>>, <<>>)
      [] proc.kind = "done" ->
            IF proc.returncode # 0
            THEN Did(GhError(FailureMessage(proc)), <<Run(argv)>>, <<>>)
            ELSE Did(Return(proc.stdout), <<Run(argv)>>, <<>>)

\* a fault of the runner: a command that failed is run a second time
_run_command_Retried(argv, proc) ==
    CASE proc.kind = "notfound" ->
            Did(Exit(1), <<Run(argv), Run(argv)>>,
                <<Rprint(<<"Error: Command not found: ">> \o argv[1])>>)
      [] proc.kind = "timeout" ->
            Did(Foreign("TimeoutExpired"), <<Run(argv), Run(argv)>>, <<>>)
      [] proc.kind = "done" ->
            IF proc.returncode # 0
            THEN Did(GhError(FailureMessage(proc)), <<Run(argv), Run(argv)>>, <<>>)
            ELSE Did(Return(proc.stdout), <<Run(argv)>>, <<>>)

\* _run_command: subprocess.run(args, capture_output, text, timeout=30)
_run_command(argv, proc) ==
    CASE proc.kind = "notfound" ->
            Did(Exit(1), <<Run(argv)>>,
                <<Rprint(<<"Error: Command not found: ">> \o argv[1])>>)
      [] proc.kind = "timeout" ->
            Did(Foreign("TimeoutExpired"), <<Run(argv)>>, <<>>)
      [] proc.kind = "done" ->
            IF proc.returncode # 0
            THEN Did(GhError(FailureMessage(proc)), <<Run(argv)>>, <<>>)
            ELSE Did(Return(proc.stdout), <<Run(argv)>>, <<>>)

\* _run_gh: require_gh(), then the command with "gh" in front
_run_gh(argv, env) ==
    Then(require_gh(env.ghOnPath), _run_command(<<<<"gh">>>> \o argv, env.proc))

\* json.loads: the value the text denotes, or JSONDecodeError (a ValueError)
json_loads(doc) ==
    IF doc.json THEN Return(doc.value) ELSE Foreign("JSONDecodeError")

\* isinstance(value, int): an int, or a bool (Python's bool is an int)
IsInt(value) == value.t \in {"int", "bool"}

\* f"{value}" of a variable's value
Format(value) ==
    CASE value.t = "int" -> IntToStr(value.n)
      [] value.t = "bool" -> IF value.b THEN <<"True">> ELSE <<"False">>
      [] value.t = "str" -> value.s

\* a fault of the encoding: every variable passed with the string flag
VariableArgs_AlwaysString(var) ==
    << <<"-f">>, var.key \o <<"=">> \o Format(var.value) >>

\* one variable's flag and key=value argument
VariableArgs(var) ==
    IF IsInt(var.value)
    THEN << <<"-F">>, var.key \o <<"=">> \o Format(var.value) >>
    ELSE << <<"-f">>, var.key \o <<"=">> \o Format(var.value) >>

RECURSIVE ExtendAll(_, _)
\* the loop over variables.items(): cmd.extend(...) for each, in order
ExtendAll(cmd, variables) ==
    IF variables = <<>> THEN cmd
    ELSE ExtendAll(cmd \o VariableArgs(Head(variables)), Tail(variables))

\* the argument list _run_graphql builds
GraphqlCmd(query, variables) ==
    ExtendAll(<< <<"gh">>, <<"api">>, <<"graphql">>, <<"-f">>, <<"query=">> \o query >>,
              variables)

\* e.get("message", str(e)) of one element of the errors list
ErrorMessage(e) ==
    IF "message" \in DOMAIN e THEN e.message
    ELSE <<"{'code': ">> \o IntToStr(e.code) \o <<"}">>

\* a fault of the check: a response with data is returned despite its errors
CheckErrors_DataWins(data) ==
    IF "errors" \in DOMAIN data /\ "data" \notin DOMAIN data
    THEN Did(Exit(1), <<>>, <<Rprint(<<"GraphQL error: ">>)>>)
    ELSE Did(Return(data), <<>>, <<>>)

\* a fault of the check: only an errors list that is not empty fails
CheckErrors_NonEmptyOnly(data) ==
    IF "errors" \in DOMAIN data /\ data.errors # <<>>
    THEN LET msgs == [i \in DOMAIN data.errors |-> ErrorMessage(data.errors[i])]
         IN  Did(Exit(1), <<>>,
                 <<Rprint(<<"GraphQL error: ">> \o Join(msgs, <<"; ">>))>>)
    ELSE Did(Return(data), <<>>, <<>>)

\* the check of the parsed response: "errors" in data
CheckErrors(data) ==
    IF "errors" \in DOMAIN data
    THEN LET msgs == [i \in DOMAIN data.errors |-> ErrorMessage(data.errors[i])]
         IN  Did(Exit(1), <<>>,
                 <<Rprint(<<"GraphQL error: ">> \o Join(msgs, <<"; ">>))>>)
    ELSE Did(Return(data), <<>>, <<>>)

\* _run_graphql: require_gh, build the command, run it, parse, check errors
_run_graphql(query, variables, env) ==
    LET ran == Then(require_gh(env.ghOnPath),
                    _run_command(GraphqlCmd(query, variables), env.proc))
    IN  IF ran.res.kind # "return" THEN ran
        ELSE LET parsed == json_loads(ran.res.value)
             IN  IF parsed.kind # "return" THEN Did(parsed, ran.calls, ran.out)
                 ELSE Then(ran, CheckErrors(parsed.value))

---------------------------------------------------------------------------
(* gh.py: the public functions.                                            *)

StrVal(text) == [t |-> "str", s |-> text]
IntVal(n) == [t |-> "int", n |-> n]

\* get_pr_info: gh pr view --json number,url,headRefName, parsed
get_pr_info(env) ==
    LET ran == _run_gh(<< <<"pr">>, <<"view">>, <<"--json">>, <<"number,url,headRefName">> >>, env)
    IN  IF ran.res.kind # "return" THEN ran
        ELSE Did(json_loads(ran.res.value), ran.calls, ran.out)

\* a fault of the function: the checks that are not completed dropped
get_pr_checks_Filtered(env) ==
    LET ran == _run_gh(<< <<"pr">>, <<"checks">>, <<"--json">>, <<"name,state,conclusion,link">> >>, env)
    IN  IF ran.res.kind # "return" THEN ran
        ELSE IF ~ran.res.value.json THEN Did(Foreign("JSONDecodeError"), ran.calls, ran.out)
        ELSE Did(Return(SelectSeq(ran.res.value.value,
                                  LAMBDA c : c.state = <<"completed">>)),
                 ran.calls, ran.out)

\* get_pr_checks: gh pr checks --json name,state,conclusion,link, parsed
get_pr_checks(env) ==
    LET ran == _run_gh(<< <<"pr">>, <<"checks">>, <<"--json">>, <<"name,state,conclusion,link">> >>, env)
    IN  IF ran.res.kind # "return" THEN ran
        ELSE Did(json_loads(ran.res.value), ran.calls, ran.out)

ThreadsQuery == <<"query($owner: String!, $repo: String!, $pr: Int!) {...reviewThreads(first: 100)...}">>
ResolveMutation == <<"mutation($threadId: ID!) {resolveReviewThread...}">>
ReplyMutation == <<"mutation($threadId: ID!, $body: String!) {addPullRequestReviewThreadReply...}">>

\* a fault of the filter: the condition inverted, the resolved threads kept
Unresolved_Inverted(threads) == SelectSeq(threads, LAMBDA t : t.isResolved)

RECURSIVE Unresolved(_)
\* [t for t in threads if not t["isResolved"]]
Unresolved(threads) ==
    IF threads = <<>> THEN <<>>
    ELSE IF ~Head(threads).isResolved
         THEN <<Head(threads)>> \o Unresolved(Tail(threads))
         ELSE Unresolved(Tail(threads))

\* fetch_review_threads
fetch_review_threads(owner, repo, pr, all_threads, env) ==
    LET variables == << [key |-> <<"owner">>, value |-> StrVal(owner)],
                        [key |-> <<"repo">>, value |-> StrVal(repo)],
                        [key |-> <<"pr">>, value |-> IntVal(pr)] >>
        got == _run_graphql(ThreadsQuery, variables, env)
    IN  IF got.res.kind # "return" THEN got
        ELSE IF "data" \notin DOMAIN got.res.value
             THEN Did(Foreign("KeyError"), got.calls, got.out)
             ELSE LET threads == got.res.value.data.repository.pullRequest.reviewThreads.nodes
                  IN  Did(Return(IF ~all_threads THEN Unresolved(threads) ELSE threads),
                          got.calls, got.out)

\* resolve_thread
resolve_thread(thread_id, env) ==
    _run_graphql(ResolveMutation, << [key |-> <<"threadId">>, value |-> StrVal(thread_id)] >>, env)

\* reply_to_thread
reply_to_thread(thread_id, body, env) ==
    _run_graphql(ReplyMutation,
                 << [key |-> <<"threadId">>, value |-> StrVal(thread_id)],
                    [key |-> <<"body">>, value |-> StrVal(body)] >>, env)

---------------------------------------------------------------------------
(* gh.py: get_repo_info and its two regular expressions.                   *)

SshPrefix == <<"g","i","t","@","g","i","t","h","u","b",".","c","o","m",":">>
HttpsPrefix == <<"h","t","t","p","s",":","/","/","g","i","t","h","u","b",".","c","o","m","/">>
DotGit == <<".","g","i","t">>

\* a fault of the pattern: . in place of [^/]
NoSlash_AnyCharacter(s, a, b) == TRUE

\* [^/] matches every character of s from a to b
NoSlash(s, a, b) == \A i \in a..b : s[i] # "/"

\* $ at position k of s: the end, or just before a final newline
AtEnd(s, k) == k = Len(s) + 1 \/ (k = Len(s) /\ s[k] = "\n")

\* a fault of the pattern: the optional .git group left out
SuffixMatches_NoDotGit(s, k) == AtEnd(s, k)

\* (?:\.git)?$ from position k of s
SuffixMatches(s, k) ==
    \/ (k + 3 <= Len(s) /\ SubSeq(s, k, k + 3) = DotGit /\ AtEnd(s, k + 4))
    \/ AtEnd(s, k)

\* ([^/]+)/([^/]+?)(?:\.git)?$ on s: every <<n, m>> such that group 1 taking
\* n characters and group 2 taking m lets the whole pattern match
Splits(s) ==
    {nm \in (1..Len(s)) \X (1..Len(s)) :
        /\ nm[1] + 1 + nm[2] <= Len(s)
        /\ NoSlash(s, 1, nm[1])
        /\ s[nm[1] + 1] = "/"
        /\ NoSlash(s, nm[1] + 2, nm[1] + 1 + nm[2])
        /\ SuffixMatches(s, nm[1] + 2 + nm[2])}

\* re.match(prefix([^/]+)/([^/]+?)(?:\.git)?$, url): the groups of the first
\* match the backtracking finds (group 1 greedy: longest first; group 2
\* lazy: shortest first), or no match
re_match(prefix, url) ==
    IF Len(url) < Len(prefix) \/ SubSeq(url, 1, Len(prefix)) # prefix
    THEN [matched |-> FALSE]
    ELSE LET s == SubSeq(url, Len(prefix) + 1, Len(url))
             S == Splits(s)
         IN  IF S = {} THEN [matched |-> FALSE]
             ELSE LET n == CHOOSE n \in {nm[1] : nm \in S} :
                                \A k \in {nm[1] : nm \in S} : k <= n
                      m == CHOOSE m \in {nm[2] : nm \in {x \in S : x[1] = n}} :
                                \A k \in {nm[2] : nm \in {x \in S : x[1] = n}} : m <= k
                  IN  [matched |-> TRUE,
                       group1 |-> SubSeq(s, 1, n),
                       group2 |-> SubSeq(s, n + 2, n + 1 + m)]

\* get_repo_info: git remote get-url origin, stripped, matched as SSH, then
\* as HTTPS
get_repo_info(proc) ==
    LET ran == _run_command(<< <<"git">>, <<"remote">>, <<"get-url">>, <<"origin">> >>, proc)
    IN  IF ran.res.kind # "return" THEN ran
        ELSE LET url == Strip(ran.res.value)
                 ssh == re_match(SshPrefix, url)
                 https == re_match(HttpsPrefix, url)
             IN  IF ssh.matched
                 THEN Did(Return(<<ssh.group1, ssh.group2>>), ran.calls, ran.out)
                 ELSE IF https.matched
                 THEN Did(Return(<<https.group1, https.group2>>), ran.calls, ran.out)
                 ELSE Did(Exit(1), ran.calls,
                          ran.out \o <<Rprint(<<"Error: Could not parse owner/repo from remote URL: ">> \o url)>>)

---------------------------------------------------------------------------
(* The outside world: what a child process does and what it prints.        *)

NotFound == [kind |-> "notfound"]
TimedOut == [kind |-> "timeout"]
Exited(rc, stdout, stderr) ==
    [kind |-> "done", returncode |-> rc, stdout |-> stdout, stderr |-> stderr]

Stderrs == {<<>>, <<"\n">>, <<"e">>, <<" ", "e", "r", "\n">>}
FailCodes == {1, 128, -9}

\* a child process that does not deliver: not started, too slow, or failed
Failures ==
    {NotFound, TimedOut} \cup {Exited(rc, <<>>, e) : rc \in FailCodes, e \in Stderrs}

Json(v) == [json |-> TRUE, value |-> v]
NotJson == [json |-> FALSE, text |-> <<"<html>">>]

\* a process that exits 0 having printed one of docs
Delivers(docs) == {Exited(0, d, e) : d \in docs, e \in {<<>>, <<"w", "\n">>}}

Envs(procs) == [ghOnPath : BOOLEAN, proc : procs]

Threads == [id : {"t1", "t2"}, isResolved : BOOLEAN]
ThreadSeqs == UNION {[1..n -> Threads] : n \in 0..MaxThreads}
ThreadsData(ts) ==
    [repository |-> [pullRequest |-> [reviewThreads |-> [nodes |-> ts]]]]

ErrorLists ==
    { <<>>,
      << [message |-> <<"m1">>] >>,
      << [message |-> <<"m1">>], [code |-> 5] >> }

\* what the GraphQL service may answer: data, errors, both or neither
Responses(datas) ==
    {Json([data |-> d]) : d \in datas}
        \cup {Json([data |-> d, errors |-> es]) : d \in datas, es \in ErrorLists}
        \cup {Json([errors |-> es]) : es \in ErrorLists}
        \cup {Json(<<>>), NotJson}

ThreadDocs ==
    {Json([data |-> ThreadsData(ts)]) : ts \in ThreadSeqs}
        \cup Responses({ThreadsData(<<>>), ThreadsData(<<[id |-> "t1", isResolved |-> FALSE]>>)})

ThreadIds == {<<"T_abc">>, <<"T_x">>}
Bodies == {<<"Fixed!">>, <<"done">>}

ResolveData(tid) ==
    [resolveReviewThread |-> [thread |-> [id |-> tid, isResolved |-> TRUE]]]
ReplyData(body) ==
    [addPullRequestReviewThreadReply |-> [comment |-> [id |-> <<"c1">>, body |-> body]]]

PrInfos ==
    {[number |-> n, url |-> <<"https://github.com/a/b/pull/">> \o IntToStr(n),
      headRefName |-> <<"feat/x">>] : n \in {7, 42}}

Checks == [name : {<<"ci">>, <<"lint">>}, state : {<<"completed">>, <<"pending">>}]
CheckSeqs == UNION {[1..n -> Checks] : n \in 0..MaxThreads}

VarKeys == {<<"owner">>, <<"pr">>, <<"body">>}
VarValues ==
    {StrVal(<<"a">>), StrVal(<<"7">>), IntVal(7), IntVal(0), IntVal(12)}
Variables == [key : VarKeys, value : VarValues]
\* a mapping in insertion order: no key twice
VarSeqs ==
    UNION {{vs \in [1..n -> Variables] :
                \A i, j \in 1..n : i # j => vs[i].key # vs[j].key} : n \in 0..MaxVars}

---------------------------------------------------------------------------
(* cli.py: init and the files it writes.  A path is a directory and a path *)
(* below it; a file is absent, or exists with a text.                      *)

Cwd == <<"cwd">>
Absent == [exists |-> FALSE, text |-> <<>>]
File(text) == [exists |-> TRUE, text |-> text]

AgentsMd == ".hatchkit/AGENTS.md"
ClaudeMd == ".claude/commands/hatchkit.md"
ClaudePrfixMd == ".claude/commands/hatchkit.prfix.md"
CopilotMd == ".github/copilot-instructions.md"
CursorMdc == ".cursor/rules/hatchkit.mdc"
GeminiMd == ".gemini/GEMINI.md"
AiMd == ".ai/commands/hatchkit.md"
Gitignore == ".gitignore"

\* the files init writes through _write_file
ScaffoldFiles == {AgentsMd, ClaudeMd, CopilotMd, CursorMdc, GeminiMd, AiMd}

_AGENTS_MD_TEMPLATE == <<"# AGENTS.md ...">>
_GITIGNORE_ADDITIONS == <<"#"," ","h","a","t","c","h","k","i","t","\n",".","h","a","t","c","h","k","i","t","/","c","a","c","h","e","/","\n">>
Marker == <<"#"," ","h","a","t","c","h","k","i","t">>

_agent_command_md(agent_name) ==
    <<"# hatchkit AI Development Guidelines ... apply to all ">>
        \o agent_name \o <<" interactions in this project. ...">>
_copilot_instructions_md == <<"# GitHub Copilot Instructions ...">>

LowerCase == <<"a","b","c","d","e","f","g","h","i","j","k","l","m","n","o","p","q","r","s","t","u","v","w","x","y","z">>
UpperCase == <<"A","B","C","D","E","F","G","H","I","J","K","L","M","N","O","P","Q","R","S","T","U","V","W","X","Y","Z">>
IsLetter(c) == \E k \in DOMAIN LowerCase : c \in {LowerCase[k], UpperCase[k]}
Upper(c) ==
    IF \E k \in DOMAIN LowerCase : c = LowerCase[k]
    THEN UpperCase[CHOOSE k \in DOMAIN LowerCase : c = LowerCase[k]]
    ELSE c
Lower(c) ==
    IF \E k \in DOMAIN UpperCase : c = UpperCase[k]
    THEN LowerCase[CHOOSE k \in DOMAIN UpperCase : c = UpperCase[k]]
    ELSE c
\* str.title(): a letter that follows no letter in upper case, the others
\* in lower case
Title(s) ==
    [i \in DOMAIN s |->
        IF i = 1 \/ ~IsLetter(s[i - 1]) THEN Upper(s[i]) ELSE Lower(s[i])]

Claude == <<"c","l","a","u","d","e">>
Copilot == <<"c","o","p","i","l","o","t">>
Cursor == <<"c","u","r","s","o","r">>
Gemini == <<"g","e","m","i","n","i">>
Codex == <<"c","o","d","e","x">>
Generic == <<"g","e","n","e","r","i","c">>
supported_agents == {Claude, Copilot, Cursor, Gemini, Codex, Generic}

\* the directories init is pointed at: the current one and a named one
TargetDirs == {Cwd, Cwd \o <<"my-project">>}
Paths == TargetDirs \X (ScaffoldFiles \cup {ClaudePrfixMd, Gitignore})

\* the places where sub occurs in text
Occurrences(text, sub) ==
    {i \in 1..(Len(text) - Len(sub) + 1) : SubSeq(text, i, i + Len(sub) - 1) = sub}

\* a fault of the test: the marker never found
Contains_Never(text, sub) == FALSE

\* sub in text
Contains(text, sub) == Occurrences(text, sub) # {}

\* bool(v) of an optional string: neither None nor empty
Truthy(v) == v # None /\ v.s # <<>>

\* what a writer leaves: the files and its prints
Wrote(files, o) == [fs |-> files, out |-> o]

\* a fault of the writer: the file written whether or not it exists
_write_file_Overwrites(files, path, content, force) ==
    Wrote([files EXCEPT ![path] = File(content)], <<Rprint(<<"  Wrote: ", path[2]>>)>>)

\* _write_file: skip a file that exists unless force, else write content
_write_file(files, path, content, force) ==
    IF files[path].exists /\ ~force
    THEN Wrote(files, <<Rprint(<<"  Skipped (already exists): ", path[2]>>)>>)
    ELSE Wrote([files EXCEPT ![path] = File(content)],
               <<Rprint(<<"  Wrote: ", path[2]>>)>>)

\* _write_ai_config: the one file of the agent ai, and a line about it
_write_ai_config(files, target, ai, force) ==
    LET W(rel, content, note) ==
            LET w == _write_file(files, <<target, rel>>, content, force)
            IN  Wrote(w.fs, w.out \o <<Rprint(note)>>)
    IN  CASE ai = Claude ->
                W(ClaudeMd, _agent_command_md(<<"Claude Code">>),
                  <<"  Wrote Claude Code commands -> .claude/commands/hatchkit.md">>)
          [] ai = Copilot ->
                W(CopilotMd, _copilot_instructions_md,
                  <<"  Wrote Copilot instructions -> .github/copilot-instructions.md">>)
          [] ai = Cursor ->
                W(CursorMdc, _agent_command_md(<<"Cursor">>),
                  <<"  Wrote Cursor rules -> .cursor/rules/hatchkit.mdc">>)
          [] ai = Gemini ->
                W(GeminiMd, _agent_command_md(<<"Gemini CLI">>),
                  <<"  Wrote Gemini CLI config -> .gemini/GEMINI.md">>)
          [] ai \in {Codex, Generic} ->
                W(AiMd, _agent_command_md(Title(ai)),
                  <<"  Wrote ">> \o Title(ai) \o <<" commands -> .ai/commands/hatchkit.md">>)
          [] OTHER -> Wrote(files, <<>>)

\* _write_project_files: AGENTS.md, the agent's file, and the lines for
\* .gitignore when there is one without the marker
_write_project_files(files, target, ai, force) ==
    LET a == _write_file(files, <<target, AgentsMd>>, _AGENTS_MD_TEMPLATE, force)
        b == IF Truthy(ai) THEN _write_ai_config(a.fs, target, ai.s, force)
             ELSE Wrote(a.fs, <<>>)
        gitignore == <<target, Gitignore>>
        content == b.fs[gitignore].text
    IN  IF b.fs[gitignore].exists /\ ~Contains(content, Marker)
        THEN Wrote([b.fs EXCEPT ![gitignore] =
                        File(content \o <<"\n">> \o _GITIGNORE_ADDITIONS)],
                   a.out \o b.out \o <<Rprint(<<"  Updated .gitignore">>)>>)
        ELSE Wrote(b.fs, a.out \o b.out)

\* what init did: its outcome, its prints, the files and directories after
Inited(res, o, files, ds) == [res |-> res, out |-> o, fs |-> files, dirs |-> ds]

\* init [PROJECT_NAME] [--here] [--force] [--ai AI]
init(project_name, here, force, ai, files, ds) ==
    LET in_cwd == here \/ project_name \in {None, StrVal(<<".">>)}
        target == IF in_cwd THEN Cwd ELSE Cwd \o project_name.s
        created_dir == ~in_cwd /\ target \notin ds
        ds1 == IF created_dir THEN ds \cup {target} ELSE ds
        o1 == IF created_dir
              THEN <<Rprint(<<"Created directory ">> \o target)>>
              ELSE <<Rprint(<<"Using existing directory ">> \o target)>>
    IN  IF Truthy(ai) /\ ai.s \notin supported_agents
        THEN Inited(Exit(1),
                    o1 \o <<Rprint(<<"Unknown AI agent: '">> \o ai.s
                                \o <<"'. Supported: claude, codex, copilot, cursor, gemini, generic">>)>>,
                    files, ds1)
        ELSE LET w == _write_project_files(files, target, ai, force)
             IN  Inited(Return(None),
                        o1 \o w.out
                            \o <<Rprint(<<"hatchkit project initialised; Directory : ">>
                                        \o target \o <<"; AI agent : ">>
                                        \o (IF Truthy(ai) THEN ai.s ELSE <<"none">>))>>,
                        w.fs, ds1)

---------------------------------------------------------------------------
(* The state machine: one call per invocation of the program.              *)

Init ==
    /\ op = "none"
    /\ args = None
    /\ result = None
    /\ calls = <<>>
    /\ out = <<>>
    /\ steps = <<>>
    /\ fs = [p \in Paths |-> Absent]
    /\ dirs = {Cwd}
    /\ runs = 0
    /\ edits = 0

\* the call of function name with inputs a, which did d
Call(name, a, d) ==
    /\ op' = name
    /\ args' = a
    /\ result' = d.res
    /\ calls' = d.calls
    /\ out' = d.out
    /\ steps' = <<>>
    /\ UNCHANGED disk

\* the process ends; the next invocation starts afresh
Finish ==
    /\ op # "none"
    /\ op' = "none"
    /\ args' = None
    /\ result' = None
    /\ calls' = <<>>
    /\ out' = <<>>
    /\ steps' = <<>>
    /\ UNCHANGED disk

RunCommand ==
    /\ op = "none"
    /\ \E argv \in {<< <<"git">>, <<"status">> >>, << <<"nonexistent">> >>},
          proc \in Failures \cup Delivers({<<"o", "k", "\n">>}) :
           Call("_run_command", [argv |-> argv, proc |-> proc], _run_command(argv, proc))

RunGraphql ==
    /\ op = "none"
    /\ \E query \in {<<"query { viewer { login } }">>},
          variables \in VarSeqs,
          env \in Envs(Failures \cup Delivers(Responses({[viewer |-> [login |-> <<"me">>]]}))) :
           Call("_run_graphql", [query |-> query, variables |-> variables, env |-> env],
                _run_graphql(query, variables, env))

GetPrInfo ==
    /\ op = "none"
    /\ \E env \in Envs(Failures \cup Delivers({Json(i) : i \in PrInfos} \cup {NotJson})) :
           Call("get_pr_info", [env |-> env], get_pr_info(env))

GetPrChecks ==
    /\ op = "none"
    /\ \E env \in Envs(Failures \cup Delivers({Json(cs) : cs \in CheckSeqs} \cup {NotJson})) :
           Call("get_pr_checks", [env |-> env], get_pr_checks(env))

FetchReviewThreads ==
    /\ op = "none"
    /\ \E owner \in {<<"alice">>}, repo \in {<<"my-repo">>}, pr \in {1, 42},
          all_threads \in BOOLEAN,
          env \in Envs(Failures \cup Delivers(ThreadDocs)) :
           Call("fetch_review_threads",
                [owner |-> owner, repo |-> repo, pr |-> pr,
                 all_threads |-> all_threads, env |-> env],
                fetch_review_threads(owner, repo, pr, all_threads, env))

ResolveThread ==
    /\ op = "none"
    /\ \E thread_id \in ThreadIds :
           \E env \in Envs(Failures \cup Delivers(Responses({ResolveData(thread_id)}))) :
               Call("resolve_thread", [thread_id |-> thread_id, env |-> env],
                    resolve_thread(thread_id, env))

ReplyToThread ==
    /\ op = "none"
    /\ \E thread_id \in ThreadIds, body \in Bodies :
           \E env \in Envs(Failures \cup Delivers(Responses({ReplyData(body)}))) :
               Call("reply_to_thread",
                    [thread_id |-> thread_id, body |-> body, env |-> env],
                    reply_to_thread(thread_id, body, env))

NextGh ==
    \/ RunCommand
    \/ RunGraphql
    \/ GetPrInfo
    \/ GetPrChecks
    \/ FetchReviewThreads
    \/ ResolveThread
    \/ ReplyToThread
    \/ Finish

SpecGh == Init /\ [][NextGh]_vars

---------------------------------------------------------------------------
(* What git may print for the remote: surrounding whitespace, a scheme, a  *)
(* host, a separator and a path of up to MaxSegs tokens.                   *)

Schemes == { <<"g","i","t","@">>, <<"h","t","t","p","s",":","/","/">>,
             <<"h","t","t","p",":","/","/">> }
Hosts == { <<"g","i","t","h","u","b",".","c","o","m">>,
           <<"G","i","t","H","u","b",".","c","o","m">>,
           <<"g","i","t","l","a","b",".","c","o","m">>,
           <<"g","i","t","h","u","b","x","c","o","m">> }
Separators == { <<":">>, <<"/">> }
PathTokens == { <<"a">>, <<"b">>, <<"/">>, DotGit, <<" ">> }

RECURSIVE PathsUpTo(_)
PathsUpTo(k) ==
    IF k = 0 THEN {<<>>}
    ELSE LET P == PathsUpTo(k - 1)
         IN  P \cup {p \o t : p \in P, t \in PathTokens}

\* the whitespace around the URL: the newline git ends its line with, or more
Paddings == { << <<>>, <<"\n">> >>, << <<"\t">>, <<" ", "\n">> >> }

RemoteOutputs ==
    {pad[1] \o scheme \o host \o sep \o path \o pad[2] :
        pad \in Paddings, scheme \in Schemes, host \in Hosts,
        sep \in Separators, path \in PathsUpTo(MaxSegs)}

GetRepoInfo ==
    /\ op = "none"
    /\ \/ \E stdout \in RemoteOutputs :
             Call("get_repo_info", [proc |-> Exited(0, stdout, <<>>)],
                  get_repo_info(Exited(0, stdout, <<>>)))
       \/ \E proc \in Failures :
             Call("get_repo_info", [proc |-> proc], get_repo_info(proc))

NextRemote == GetRepoInfo \/ Finish

SpecRemote == Init /\ [][NextRemote]_vars

\* every function of gh.py that starts a child process
NextFunctions ==
    \/ RunCommand
    \/ GetPrInfo
    \/ GetPrChecks
    \/ FetchReviewThreads
    \/ ResolveThread
    \/ ReplyToThread
    \/ GetRepoInfo
    \/ Finish

SpecFunctions == Init /\ [][NextFunctions]_vars

---------------------------------------------------------------------------
(* pr.py: the commands.  A command's service calls are recorded in steps.  *)

\* _json_out: print(json.dumps(data, indent=2)), to the standard output
_json_out(data) == [stream |-> "stdout", via |-> "print", json |-> data]

Step(fn, did) == [fn |-> fn, res |-> did.res]

\* what a command did: Did, and its service calls
Ran(res, cs, o, st) == [res |-> res, calls |-> cs, out |-> o, steps |-> st]

\* the end of reply: the prints after both service calls
reply_output(thread_id, resolve_flag, pretty, reply_result, resolve_result) ==
    IF pretty
    THEN <<Rprint(<<"Replied to thread ">> \o thread_id)>>
            \o (IF resolve_flag
                THEN <<Rprint(<<"Resolved thread ">> \o thread_id)>>
                ELSE <<>>)
    ELSE <<_json_out(IF resolve_result # None
                     THEN [reply |-> reply_result, resolve |-> resolve_result]
                     ELSE [reply |-> reply_result])>>

\* a fault of the command: the thread resolved whether or not --resolve was
\* given
reply_AlwaysResolves(thread_id, body, resolve_flag, pretty, ghOnPath, procs) ==
    LET replied == reply_to_thread(thread_id, body,
                                   [ghOnPath |-> ghOnPath, proc |-> procs[1]])
        resolved == resolve_thread(thread_id,
                                   [ghOnPath |-> ghOnPath, proc |-> procs[2]])
    IN  IF replied.res.kind # "return"
        THEN Ran(replied.res, replied.calls, replied.out,
                 <<Step("reply_to_thread", replied)>>)
        ELSE IF resolved.res.kind # "return"
        THEN Ran(resolved.res, replied.calls \o resolved.calls,
                 replied.out \o resolved.out,
                 <<Step("reply_to_thread", replied), Step("resolve_thread", resolved)>>)
        ELSE Ran(Return(None), replied.calls \o resolved.calls,
                 replied.out \o resolved.out
                    \o reply_output(thread_id, TRUE, pretty,
                                    replied.res.value, resolved.res.value),
                 <<Step("reply_to_thread", replied), Step("resolve_thread", resolved)>>)

\* pr reply THREAD_ID BODY [--resolve] [--pretty]
reply(thread_id, body, resolve_flag, pretty, ghOnPath, procs) ==
    LET replied == reply_to_thread(thread_id, body,
                                   [ghOnPath |-> ghOnPath, proc |-> procs[1]])
        resolved == resolve_thread(thread_id,
                                   [ghOnPath |-> ghOnPath, proc |-> procs[2]])
    IN  IF replied.res.kind # "return"
        THEN Ran(replied.res, replied.calls, replied.out,
                 <<Step("reply_to_thread", replied)>>)
        ELSE IF ~resolve_flag
        THEN Ran(Return(None), replied.calls,
                 replied.out \o reply_output(thread_id, FALSE, pretty,
                                             replied.res.value, None),
                 <<Step("reply_to_thread", replied)>>)
        ELSE IF resolved.res.kind # "return"
        THEN Ran(resolved.res, replied.calls \o resolved.calls,
                 replied.out \o resolved.out,
                 <<Step("reply_to_thread", replied), Step("resolve_thread", resolved)>>)
        ELSE Ran(Return(None), replied.calls \o resolved.calls,
                 replied.out \o resolved.out
                    \o reply_output(thread_id, TRUE, pretty,
                                    replied.res.value, resolved.res.value),
                 <<Step("reply_to_thread", replied), Step("resolve_thread", resolved)>>)

\* console.print(table): a rich table, to the standard output
ConsolePrint(title, rows) ==
    [stream |-> "stdout", via |-> "console", title |-> title, rows |-> rows]

\* a command that made one service call, got, and printed o after it
OneCall(fn, got, o) ==
    IF got.res.kind # "return"
    THEN Ran(got.res, got.calls, got.out, <<Step(fn, got)>>)
    ELSE Ran(Return(None), got.calls, got.out \o o, <<Step(fn, got)>>)

\* pr info [--pretty]
info(pretty, env) ==
    LET got == get_pr_info(env)
        data == got.res.value
    IN  OneCall("get_pr_info", got,
                IF pretty
                THEN << Rprint(<<"  PR  : #">> \o IntToStr(data.number)),
                        Rprint(<<"  URL : ">> \o data.url),
                        Rprint(<<"  Branch: ">> \o data.headRefName) >>
                ELSE <<_json_out(data)>>)

\* pr resolve THREAD_ID [--pretty]
resolve(thread_id, pretty, env) ==
    LET got == resolve_thread(thread_id, env)
    IN  OneCall("resolve_thread", got,
                IF pretty
                THEN <<Rprint(<<"Resolved thread ">> \o thread_id)>>
                ELSE <<_json_out(got.res.value)>>)

\* the row of the table of pr checks for the check c; "-" stands for the
\* dash the code shows for a missing conclusion or link
CheckRow(c) == <<c.name, c.state, <<"-">>, <<"-">> >>

\* pr checks [--pretty]
checks(pretty, env) ==
    LET got == get_pr_checks(env)
        check_list == got.res.value
    IN  OneCall("get_pr_checks", got,
                IF ~pretty THEN <<_json_out(check_list)>>
                ELSE IF check_list = <<>> THEN <<Rprint(<<"No checks found.">>)>>
                ELSE <<ConsolePrint("PR Checks",
                                    [i \in DOMAIN check_list |-> CheckRow(check_list[i])])>>)

\* a or b of Python, for an optional string: b when a is None or empty
Or(a, b) == IF a # None /\ a.s # <<>> THEN a ELSE b

\* the row of the table of pr threads for the i-th thread t
ThreadRow(i, t) ==
    << NatToStr(i), <<"-">>, <<"-">>,
       IF t.isResolved THEN <<"Resolved">> ELSE <<"Open">>, <<>> >>

\* the end of threads: the prints after the service calls
threads_output(thread_list, pretty) ==
    IF ~pretty THEN <<_json_out(thread_list)>>
    ELSE IF thread_list = <<>> THEN <<Rprint(<<"No unresolved threads.">>)>>
    ELSE <<ConsolePrint("Review Threads",
                        [i \in DOMAIN thread_list |-> ThreadRow(i, thread_list[i])])>>
            \o <<Rprint(<<"\n  Thread IDs (for resolve/reply):">>)>>
            \o [i \in DOMAIN thread_list |->
                    Rprint(<<"    ">> \o NatToStr(i) \o <<". ", thread_list[i].id>>)]

\* pr threads [--owner O] [--repo R] [--pr N] [--all] [--pretty]; an option
\* that was not given is None; procs are the child processes of git, of
\* gh pr view and of gh api graphql
threads(owner, repo, pr, all_threads, pretty, ghOnPath, procs) ==
    LET detect == owner = None \/ repo = None
        detected == get_repo_info(procs[1])
        after1 == IF detect THEN detected ELSE Did(Return(None), <<>>, <<>>)
        steps1 == IF detect THEN <<Step("get_repo_info", detected)>> ELSE <<>>
        owner1 == IF detect THEN Or(owner, StrVal(detected.res.value[1])) ELSE owner
        repo1 == IF detect THEN Or(repo, StrVal(detected.res.value[2])) ELSE repo
        pr_info == get_pr_info([ghOnPath |-> ghOnPath, proc |-> procs[2]])
        after2 == IF pr = None THEN Then(after1, pr_info) ELSE after1
        steps2 == IF pr = None THEN steps1 \o <<Step("get_pr_info", pr_info)>> ELSE steps1
        pr1 == IF pr = None THEN IntVal(pr_info.res.value.number) ELSE pr
        fetched == fetch_review_threads(owner1.s, repo1.s, pr1.n, all_threads,
                                        [ghOnPath |-> ghOnPath, proc |-> procs[3]])
        after3 == Then(after2, fetched)
        steps3 == steps2 \o <<Step("fetch_review_threads", fetched)>>
    IN  IF after1.res.kind # "return" THEN Ran(after1.res, after1.calls, after1.out, steps1)
        ELSE IF after2.res.kind # "return"
        THEN Ran(after2.res, after2.calls, after2.out, steps2)
        ELSE IF after3.res.kind # "return"
        THEN Ran(after3.res, after3.calls, after3.out, steps3)
        ELSE Ran(Return(None), after3.calls,
                 after3.out \o threads_output(fetched.res.value, pretty), steps3)

\* the invocation of command name with inputs a, which ran r
Command(name, a, r) ==
    /\ op' = name
    /\ args' = a
    /\ result' = r.res
    /\ calls' = r.calls
    /\ out' = r.out
    /\ steps' = r.steps
    /\ UNCHANGED disk

\* a child process of a pr command: a few failures, or a delivery
FewFailures ==
    {NotFound, TimedOut, Exited(1, <<>>, <<"e", "\n">>), Exited(1, <<>>, <<>>)}
Served(datas) ==
    {Exited(0, d, <<>>) :
        d \in {Json([data |-> x]) : x \in datas}
                \cup {Json([errors |-> << [message |-> <<"m1">>] >>]), NotJson}}

PrReply ==
    /\ op = "none"
    /\ \E thread_id \in ThreadIds, body \in Bodies,
          resolve_flag \in BOOLEAN, pretty \in BOOLEAN, ghOnPath \in BOOLEAN :
           \E p1 \in FewFailures \cup Served({ReplyData(body)}),
              p2 \in FewFailures \cup Served({ResolveData(thread_id)}) :
               Command("pr reply",
                       [thread_id |-> thread_id, body |-> body,
                        resolve |-> resolve_flag, pretty |-> pretty,
                        ghOnPath |-> ghOnPath, procs |-> <<p1, p2>>],
                       reply(thread_id, body, resolve_flag, pretty, ghOnPath, <<p1, p2>>))

\* the options of pr threads as the command line gives them
Owners == {None, StrVal(<<>>), StrVal(<<"x">>)}
Repos == {None, StrVal(<<"y">>)}
PrNumbers == {None, IntVal(99)}

\* what git, gh pr view and gh api graphql do for a pr command
GitProcs ==
    FewFailures
        \cup {Exited(0, SshPrefix \o <<"a", "/", "b">> \o DotGit \o <<"\n">>, <<>>),
              Exited(0, <<"g","i","t","@","g","i","t","l","a","b",":","a","/","b","\n">>, <<>>)}
InfoProcs ==
    FewFailures \cup {Exited(0, Json(i), <<>>) : i \in PrInfos} \cup {Exited(0, NotJson, <<>>)}
ChecksProcs ==
    FewFailures
        \cup {Exited(0, Json(cs), <<>>) : cs \in {cs \in CheckSeqs : Len(cs) <= 1}}
        \cup {Exited(0, NotJson, <<>>)}
ThreadsProcs ==
    FewFailures
        \cup Served({ThreadsData(<<>>),
                     ThreadsData(<< [id |-> "t1", isResolved |-> TRUE],
                                    [id |-> "t2", isResolved |-> FALSE] >>)})

PrInfo ==
    /\ op = "none"
    /\ \E pretty \in BOOLEAN, ghOnPath \in BOOLEAN, p \in InfoProcs :
           Command("pr info", [pretty |-> pretty, ghOnPath |-> ghOnPath, procs |-> <<p>>],
                   info(pretty, [ghOnPath |-> ghOnPath, proc |-> p]))

PrResolve ==
    /\ op = "none"
    /\ \E thread_id \in ThreadIds, pretty \in BOOLEAN, ghOnPath \in BOOLEAN :
           \E p \in FewFailures \cup Served({ResolveData(thread_id)}) :
               Command("pr resolve",
                       [thread_id |-> thread_id, pretty |-> pretty,
                        ghOnPath |-> ghOnPath, procs |-> <<p>>],
                       resolve(thread_id, pretty, [ghOnPath |-> ghOnPath, proc |-> p]))

PrChecks ==
    /\ op = "none"
    /\ \E pretty \in BOOLEAN, ghOnPath \in BOOLEAN, p \in ChecksProcs :
           Command("pr checks", [pretty |-> pretty, ghOnPath |-> ghOnPath, procs |-> <<p>>],
                   checks(pretty, [ghOnPath |-> ghOnPath, proc |-> p]))

PrThreads ==
    /\ op = "none"
    /\ \E owner \in Owners, repo \in Repos, pr \in PrNumbers,
          all_threads \in BOOLEAN, pretty \in BOOLEAN, ghOnPath \in BOOLEAN,
          p1 \in GitProcs, p2 \in InfoProcs, p3 \in ThreadsProcs :
           Command("pr threads",
                   [owner |-> owner, repo |-> repo, pr |-> pr, all_threads |-> all_threads,
                    pretty |-> pretty, ghOnPath |-> ghOnPath, procs |-> <<p1, p2, p3>>],
                   threads(owner, repo, pr, all_threads, pretty, ghOnPath, <<p1, p2, p3>>))

\* how the process of an invocation ends.  main() calls app() with nothing
\* around it, and no command of pr.py has a try: typer turns typer.Exit(code)
\* into the exit status code; any other exception leaves the interpreter
\* uncaught, which prints its stack trace and exits with status 1.
ExitStatus(res) ==
    IF res.kind = "return" THEN 0
    ELSE IF res.kind = "Exit" THEN res.code
    ELSE 1
StackTrace(res) == res.kind \notin {"return", "Exit"}

NextPr == PrInfo \/ PrThreads \/ PrResolve \/ PrReply \/ PrChecks \/ Finish

SpecPr == Init /\ [][NextPr]_vars

---------------------------------------------------------------------------
(* init, run again and again in directories the user also writes to.       *)

ProjectNames == {None, StrVal(<<".">>), StrVal(<<"my-project">>)}
AiValues ==
    {None, StrVal(<<>>), StrVal(<<"n","o","t","a","n","a","g","e","n","t">>)}
        \cup {StrVal(a) : a \in supported_agents}

\* what the user may have put into a file by hand
UserTexts(rel) ==
    IF rel = Gitignore
    THEN { <<"*",".","p","y","c","\n">>,
           <<"x","\n","#"," ","h","a","t","c","h","k","i">>,
           <<"#"," ","h","a","t","c","h","k","i","t","-","o","l","d","\n">> }
    ELSE { <<"custom content">> }
UserFiles == {AgentsMd, ClaudeMd, Gitignore}

\* the user writes a file of the current directory
UserWrites ==
    /\ op = "none"
    /\ edits < MaxEdits
    /\ \E rel \in UserFiles : \E text \in UserTexts(rel) :
           fs' = [fs EXCEPT ![<<Cwd, rel>>] = File(text)]
    /\ edits' = edits + 1
    /\ UNCHANGED <<op, args, result, calls, out, steps, dirs, runs>>

InitCommand ==
    /\ op = "none"
    /\ runs < MaxRuns
    /\ \E project_name \in ProjectNames, here \in BOOLEAN, force \in BOOLEAN,
          ai \in AiValues :
           LET r == init(project_name, here, force, ai, fs, dirs)
           IN  /\ op' = "init"
               /\ args' = [project_name |-> project_name, here |-> here,
                           force |-> force, ai |-> ai, fs |-> fs, dirs |-> dirs]
               /\ result' = r.res
               /\ out' = r.out
               /\ fs' = r.fs
               /\ dirs' = r.dirs
    /\ calls' = <<>>
    /\ steps' = <<>>
    /\ runs' = runs + 1
    /\ UNCHANGED edits

NextInit == InitCommand \/ UserWrites \/ Finish

SpecInit == Init /\ [][NextInit]_vars

---------------------------------------------------------------------------
(* The whole program.                                                      *)

Next ==
    \/ RunCommand
    \/ RunGraphql
    \/ GetPrInfo
    \/ GetPrChecks
    \/ FetchReviewThreads
    \/ ResolveThread
    \/ ReplyToThread
    \/ GetRepoInfo
    \/ PrInfo
    \/ PrThreads
    \/ PrResolve
    \/ PrReply
    \/ PrChecks
    \/ InitCommand
    \/ UserWrites
    \/ Finish

Spec == Init /\ [][Next]_vars

---------------------------------------------------------------------------
(* The claims.                                                             *)

GraphqlOps == {"_run_graphql", "fetch_review_threads", "resolve_thread", "reply_to_thread"}
GhOps == {"get_pr_info", "get_pr_checks", "fetch_review_threads", "resolve_thread", "reply_to_thread"}

\* the call's child process exited 0 and its output is JSON
GotJson ==
    /\ args.env.ghOnPath
    /\ args.env.proc.kind = "done"
    /\ args.env.proc.returncode = 0
    /\ args.env.proc.stdout.json

\* the parsed response of the call
Response == args.env.proc.stdout.value

\* the review threads the service returned
Served_threads == Response.data.repository.pullRequest.reviewThreads.nodes

\* the positions of the unresolved threads among those returned
Open_positions == {i \in DOMAIN Served_threads : ~Served_threads[i].isResolved}

\* C1: for every sequence of threads the service returns (a response with
\* data and no errors), fetch_review_threads returns, without --all, exactly
\* the unresolved threads in their original order (its k-th element is the
\* input's k-th unresolved thread) and, with --all, the sequence unchanged.
C1_FetchFiltersResolved ==
    (op = "fetch_review_threads" /\ GotJson
        /\ "data" \in DOMAIN Response /\ "errors" \notin DOMAIN Response)
    => /\ result.kind = "return"
       /\ IF args.all_threads
          THEN result.value = Served_threads
          ELSE /\ Len(result.value) = Cardinality(Open_positions)
               /\ \A k \in 1..Len(result.value) :
                    \E i \in Open_positions :
                        /\ Cardinality({j \in Open_positions : j <= i}) = k
                        /\ result.value[k] = Served_threads[i]

\* C1's case: a resolved thread ahead of two unresolved ones is filtered out
C1_Witness ==
    /\ op = "fetch_review_threads"
    /\ GotJson
    /\ "data" \in DOMAIN Response /\ "errors" \notin DOMAIN Response
    /\ ~args.all_threads
    /\ Len(Served_threads) = 3
    /\ Served_threads[1].isResolved
    /\ result.kind = "return"
    /\ result.value = << [id |-> "t2", isResolved |-> FALSE],
                         [id |-> "t1", isResolved |-> FALSE] >>

\* C2: a response whose errors list is not empty makes _run_graphql, and so
\* fetch_review_threads, resolve_thread and reply_to_thread, exit with
\* status 1 after printing the GraphQL error; no value is returned, whether
\* or not the response carries data.
C2_ErrorsAlwaysFail ==
    (op \in GraphqlOps /\ GotJson
        /\ "errors" \in DOMAIN Response /\ Response.errors # <<>>)
    => /\ result = [kind |-> "Exit", code |-> 1]
       /\ out # <<>>
       /\ out[Len(out)].text[1] = "GraphQL error: "

\* C2's case: errors together with data, and the call exits
C2_Witness ==
    /\ op = "fetch_review_threads"
    /\ GotJson
    /\ "errors" \in DOMAIN Response /\ Response.errors # <<>>
    /\ "data" \in DOMAIN Response
    /\ Served_threads # <<>>
    /\ result.kind = "Exit"

\* the decimal text of the integers the model passes as variables
Decimal(n) ==
    CASE n = 0 -> <<"0">>
      [] n = 1 -> <<"1">>
      [] n = 7 -> <<"7">>
      [] n = 12 -> <<"1", "2">>
      [] n = 42 -> <<"4", "2">>

\* the argument list of the call's child process
Cmd == calls[2].argv

\* the places of cmd, among those of the flags, whose value is key=...
PlacesOf(cmd, key) ==
    {p \in 6..(Len(cmd) - 1) :
        p % 2 = 0 /\ Len(cmd[p + 1]) >= 2
            /\ cmd[p + 1][1] = key[1] /\ cmd[p + 1][2] = "="}

\* C4: the argument list _run_graphql builds starts with gh api graphql -f
\* query=<query> and holds, for each variable, exactly one flag/value pair:
\* -F key=value for an integer and -f key=value for a string, nothing else.
C4_VariableFlags ==
    (op = "_run_graphql" /\ Len(calls) >= 2)
    => /\ Len(Cmd) = 5 + 2 * Len(args.variables)
       /\ SubSeq(Cmd, 1, 5) =
            << <<"gh">>, <<"api">>, <<"graphql">>, <<"-f">>, <<"query=">> \o args.query >>
       /\ \A i \in DOMAIN args.variables :
            LET var == args.variables[i]
                P == PlacesOf(Cmd, var.key)
            IN  /\ Cardinality(P) = 1
                /\ \A p \in P :
                     IF var.value.t = "int"
                     THEN /\ Cmd[p] = <<"-F">>
                          /\ Cmd[p + 1] = var.key \o <<"=">> \o Decimal(var.value.n)
                     ELSE /\ Cmd[p] = <<"-f">>
                          /\ Cmd[p + 1] = var.key \o <<"=">> \o var.value.s

\* C4's case: an integer 7 and a string "7" in one call, each with its flag
C4_Witness ==
    /\ op = "_run_graphql"
    /\ Len(calls) = 2
    /\ Len(args.variables) = 2
    /\ args.variables[1].value = [t |-> "int", n |-> 7]
    /\ args.variables[2].value = [t |-> "str", s |-> <<"7">>]
    /\ Cmd[6] = <<"-F">>
    /\ Cmd[8] = <<"-f">>

\* C7: every operation that needs gh asks for it (shutil.which) before any
\* child process is started; with gh not on PATH the operation exits with
\* status 1 after the dependency-missing message and starts no process.
C7_GhCheckedBeforeSpawn ==
    op \in GhOps
    => /\ calls # <<>>
       /\ calls[1].ev = "which"
       /\ \A i \in DOMAIN calls :
            calls[i].ev = "run" => \E j \in 1..(i - 1) : calls[j].ev = "which"
       /\ ~args.env.ghOnPath
            => /\ result = [kind |-> "Exit", code |-> 1]
               /\ \A i \in DOMAIN calls : calls[i].ev # "run"
               /\ Len(out) = 1
               /\ out[1].text =
                    <<"Error: 'gh' CLI not found. Install it from https://cli.github.com/">>

\* C7's case: gh is missing although the child process would have delivered
C7_Witness ==
    /\ op = "get_pr_checks"
    /\ ~args.env.ghOnPath
    /\ args.env.proc.kind = "done"
    /\ args.env.proc.returncode = 0
    /\ result.kind = "Exit"
    /\ calls = <<[ev |-> "which", name |-> "gh"]>>

\* the decimal text of the exit codes the model's processes end with
ExitCodeText(rc) ==
    CASE rc = 1 -> <<"1">>
      [] rc = 128 -> <<"1", "2", "8">>
      [] rc = -9 -> <<"-", "9">>

\* the generic message of a failed command
GenericMessage(rc) == <<"Command failed with exit code ">> \o ExitCodeText(rc)

\* the process of the _run_command call exited non-zero
ExitedNonZero ==
    op = "_run_command" /\ args.proc.kind = "done" /\ args.proc.returncode # 0

\* C8 as stated: a non-zero exit raises GhError, whose message is the
\* process's stderr when stderr is not empty and the generic text with the
\* exit code when it is empty.
C8_MessageIsStderr ==
    ExitedNonZero
    => /\ result.kind = "GhError"
       /\ result.msg = IF args.proc.stderr # <<>>
                       THEN args.proc.stderr
                       ELSE GenericMessage(args.proc.returncode)

\* t is s without its leading and trailing whitespace
IsStripped(t, s) ==
    \E a \in 0..Len(s), b \in 0..Len(s) :
        /\ a + b <= Len(s)
        /\ t = SubSeq(s, a + 1, Len(s) - b)
        /\ \A i \in 1..a : s[i] \in Whitespace
        /\ \A i \in (Len(s) - b + 1)..Len(s) : s[i] \in Whitespace
        /\ t # <<>> => (t[1] \notin Whitespace /\ t[Len(t)] \notin Whitespace)

\* C8, amended: a non-zero exit raises GhError and returns nothing; the
\* message is stderr with its leading and trailing whitespace removed when
\* that leaves something, and the generic text with the actual exit code
\* when stderr is empty or only whitespace.
C8_MessageIsStrippedStderr ==
    ExitedNonZero
    => /\ result.kind = "GhError"
       /\ IF \A i \in DOMAIN args.proc.stderr : args.proc.stderr[i] \in Whitespace
          THEN result.msg = GenericMessage(args.proc.returncode)
          ELSE IsStripped(result.msg, args.proc.stderr)

\* C8's case: exit code 128 and a stderr with whitespace around its text
C8_Witness ==
    /\ ExitedNonZero
    /\ args.proc.returncode = 128
    /\ args.proc.stderr = <<" ", "e", "r", "\n">>
    /\ result = [kind |-> "GhError", msg |-> <<"e", "r">>]

\* C9 as stated: text that is not JSON makes a GraphQL call fail with an
\* error of the program's own (typer.Exit or GhError), not with a foreign
\* exception.
C9_MalformedResponseIsTyped ==
    (op \in GraphqlOps /\ args.env.ghOnPath /\ args.env.proc.kind = "done"
        /\ args.env.proc.returncode = 0 /\ ~args.env.proc.stdout.json)
    => result.kind \in {"Exit", "GhError"}

\* C10 as stated: a child process that exceeds the timeout ends the call
\* as one that exited non-zero does, with GhError.
C10_TimeoutIsCommandFailed ==
    (op = "_run_command" /\ args.proc.kind = "timeout")
    => result.kind = "GhError"

\* C3 as stated: when the reply succeeded and the resolve failed, what the
\* command prints still carries the reply's result, beside the failure.
C3_ReplyResultKept ==
    (op = "pr reply" /\ args.resolve /\ Len(steps) = 2
        /\ steps[1].res.kind = "return" /\ steps[2].res.kind # "return")
    => \E i \in DOMAIN out :
          \/ /\ out[i].via = "print"
             /\ out[i].json.reply = steps[1].res.value
          \/ /\ out[i].via = "rprint"
             /\ out[i].text = <<"Replied to thread ">> \o args.thread_id

\* git printed a URL: the remote URL is its output without the surrounding
\* whitespace
GitPrinted ==
    op = "get_repo_info" /\ args.proc.kind = "done" /\ args.proc.returncode = 0

RemoteUrl == Strip(args.proc.stdout)

\* url begins with pre
StartsWith(url, pre) ==
    Len(url) >= Len(pre) /\ SubSeq(url, 1, Len(pre)) = pre

\* url is pre<owner>/<rest> with the slash at k: owner and rest are not
\* empty and hold no slash (rest is the repository name, with or without a
\* trailing .git)
AcceptedAt(url, pre, k) ==
    /\ StartsWith(url, pre)
    /\ Len(pre) + 1 < k
    /\ k < Len(url)
    /\ url[k] = "/"
    /\ \A i \in (Len(pre) + 1)..Len(url) : i # k => url[i] # "/"

\* the repository name of rest: rest without one trailing .git, unless rest
\* is .git itself
RepoOf(rest) ==
    IF Len(rest) > 4 /\ SubSeq(rest, Len(rest) - 3, Len(rest)) = DotGit
    THEN SubSeq(rest, 1, Len(rest) - 4)
    ELSE rest

\* C5: for every remote URL git@github.com:<owner>/<repo> or
\* https://github.com/<owner>/<repo>, with or without a trailing .git, owner
\* and repo not empty and without a slash, get_repo_info returns exactly
\* (owner, repo), the .git suffix removed and nothing else changed.
C5_AcceptedRemoteParsed ==
    GitPrinted
    => \A pre \in {SshPrefix, HttpsPrefix}, k \in 1..Len(RemoteUrl) :
          AcceptedAt(RemoteUrl, pre, k)
          => result = [kind |-> "return",
                       value |-> << SubSeq(RemoteUrl, Len(pre) + 1, k - 1),
                                    RepoOf(SubSeq(RemoteUrl, k + 1, Len(RemoteUrl))) >>]

\* C5's case: git@github.com:a/b.git, printed with whitespace around it,
\* gives (a, b)
C5_Witness ==
    /\ GitPrinted
    /\ args.proc.stdout = <<"\t">> \o SshPrefix \o <<"a", "/", "b">> \o DotGit \o <<" ", "\n">>
    /\ result.kind = "return"
    /\ result.value = << <<"a">>, <<"b">> >>

\* C6: every remote URL that is not of one of the two accepted shapes
\* (another host, a host in another letter case, no owner or no repo,
\* further path segments, a trailing slash) makes get_repo_info exit with
\* status 1 after printing that the URL cannot be parsed; no pair is
\* returned.
C6_OtherRemoteRejected ==
    (GitPrinted
        /\ ~\E pre \in {SshPrefix, HttpsPrefix}, k \in 1..Len(RemoteUrl) :
              AcceptedAt(RemoteUrl, pre, k))
    => /\ result = [kind |-> "Exit", code |-> 1]
       /\ Len(out) = 1
       /\ out[1].text =
            <<"Error: Could not parse owner/repo from remote URL: ">> \o RemoteUrl

\* C6's case: the right host and owner/repo followed by a slash
C6_Witness ==
    /\ GitPrinted
    /\ RemoteUrl = HttpsPrefix \o <<"a", "/", "b", "/">>
    /\ result.kind = "Exit"

\* C17: get_pr_checks returns the sequence of check records the service
\* returned with no element removed, added or reordered; the empty sequence
\* is returned as the empty sequence.
C17_ChecksUnchanged ==
    (op = "get_pr_checks" /\ GotJson)
    => /\ result.kind = "return"
       /\ Len(result.value) = Len(Response)
       /\ \A k \in DOMAIN Response : result.value[k] = Response[k]

\* checks in two states, the pending one between two completed ones
C17_Witness ==
    /\ op = "get_pr_checks" /\ GotJson
    /\ Len(Response) = 3
    /\ Response[1].state = <<"completed">>
    /\ Response[2].state = <<"pending">>
    /\ Response[3].name # Response[1].name
    /\ result = Return(Response)

\* the functions that start a child process without asking for gh first
DirectOps == {"_run_command", "get_repo_info"}
\* the public functions of gh.py
PublicOps == GhOps \cup {"get_repo_info"}

\* the child process of the call
ChildProcess == IF op \in DirectOps THEN args.proc ELSE args.env.proc
\* the call got as far as subprocess.run
ReachedRun == op \in DirectOps \/ args.env.ghOnPath
\* the subprocess.run calls of the call
RunCalls == {i \in DOMAIN calls : calls[i].ev = "run"}

\* C12: when the executable of the command cannot be found, _run_command
\* ends the call with exit status 1 after the message "Command not found"
\* and returns no output, for the git call of get_repo_info as for the gh
\* calls of the other functions.
C12_NotFoundExits ==
    (op \in DirectOps \cup PublicOps /\ ReachedRun /\ ChildProcess.kind = "notfound")
    => /\ result = Exit(1)
       /\ Len(out) = 1
       /\ out[1] = Rprint(<<"Error: Command not found: ">> \o calls[Len(calls)].argv[1])

\* git is not installed: get_repo_info exits 1 naming git
C12_Witness ==
    /\ op = "get_repo_info"
    /\ args.proc.kind = "notfound"
    /\ result = Exit(1)
    /\ out = <<Rprint(<<"Error: Command not found: ", "git">>)>>

\* C20: every call of get_pr_info, get_pr_checks, get_repo_info,
\* fetch_review_threads, resolve_thread and reply_to_thread starts at most
\* one child process, the last thing it does outside itself: after a failure
\* nothing is started again.
C20_AtMostOneProcess ==
    op \in PublicOps
    => /\ Cardinality(RunCalls) <= 1
       /\ RunCalls \subseteq {Len(calls)}
       /\ (ReachedRun => Cardinality(RunCalls) = 1)

\* a call whose one child process failed
C20_Witness ==
    /\ op = "resolve_thread"
    /\ args.env.ghOnPath
    /\ args.env.proc.kind = "done" /\ args.env.proc.returncode = 128
    /\ result.kind = "GhError"
    /\ Cardinality(RunCalls) = 1

\* C18: every pair get_repo_info returns, whatever git printed, has an owner
\* and a repository name that are not empty and hold no "/".
C18_OwnerRepoWellFormed ==
    (op = "get_repo_info" /\ result.kind = "return")
    => \A k \in 1..2 :
          /\ Len(result.value[k]) > 0
          /\ \A i \in DOMAIN result.value[k] : result.value[k][i] # "/"

\* a path whose last segment is ".git" alone: the suffix is then the name
C18_Witness ==
    /\ GitPrinted
    /\ RemoteUrl = HttpsPrefix \o <<"a", "/">> \o DotGit
    /\ result = Return(<< <<"a">>, DotGit >>)

\* the positions in steps of the calls of resolve_thread
ResolveSteps == {i \in DOMAIN steps : steps[i].fn = "resolve_thread"}
\* the positions in calls of the child processes that carry query
RunsOf(query) ==
    {i \in DOMAIN calls :
        /\ calls[i].ev = "run"
        /\ Len(calls[i].argv) >= 5
        /\ calls[i].argv[5] = <<"query=">> \o query}

\* C19: in pr reply the resolve mutation is issued if and only if --resolve
\* was given and the reply has returned: never before the reply, never after
\* a reply that failed, never without --resolve; and what the command prints
\* as JSON has the key resolve only when the resolve was issued and returned.
C19_ResolveOnlyAfterReply ==
    op = "pr reply"
    => /\ steps # <<>> /\ steps[1].fn = "reply_to_thread"
       /\ ResolveSteps # {} <=> (args.resolve /\ steps[1].res.kind = "return")
       /\ ResolveSteps \subseteq {2}
       /\ \A i \in RunsOf(ResolveMutation) :
             /\ args.resolve
             /\ \E j \in RunsOf(ReplyMutation) : j < i
             /\ args.procs[1].kind = "done" /\ args.procs[1].returncode = 0
       /\ \A i \in DOMAIN out :
             (out[i].via = "print" /\ "resolve" \in DOMAIN out[i].json)
             => /\ ResolveSteps = {2}
                /\ steps[2].res.kind = "return"
                /\ out[i].json.resolve = steps[2].res.value

\* --resolve given, the reply returned, the resolve issued after it and
\* printed under its key
C19_Witness ==
    /\ op = "pr reply" /\ args.resolve /\ ~args.pretty
    /\ Len(steps) = 2
    /\ steps[1].res.kind = "return" /\ steps[2].res.kind = "return"
    /\ RunsOf(ReplyMutation) = {2} /\ RunsOf(ResolveMutation) = {4}
    /\ out = <<_json_out([reply |-> steps[1].res.value, resolve |-> steps[2].res.value])>>

PrCommands == {"pr info", "pr threads", "pr resolve", "pr reply", "pr checks"}

\* C11 as stated: in every pr command, an error of a lower layer, of whatever
\* kind, ends the invocation with a non-zero exit status and exactly one
\* message for the user, never with an exception nobody caught and its
\* stack trace.
C11_ErrorsEndCleanly ==
    (op \in PrCommands /\ result.kind # "return")
    => /\ ExitStatus(result) # 0
       /\ ~StackTrace(result)
       /\ Len(out) = 1 /\ out[1].via = "rprint"

\* the directory the last init was pointed at
TargetDir ==
    IF args.here \/ args.project_name \in {None, StrVal(<<".">>)}
    THEN Cwd ELSE Cwd \o args.project_name.s

\* the file of the agent named by --ai, and the name its template carries
AgentFiles ==
    { <<Claude, ClaudeMd, <<"Claude Code">> >>,
      <<Copilot, CopilotMd, <<>> >>,
      <<Cursor, CursorMdc, <<"Cursor">> >>,
      <<Gemini, GeminiMd, <<"Gemini CLI">> >>,
      <<Codex, AiMd, <<"C","o","d","e","x">> >>,
      <<Generic, AiMd, <<"G","e","n","e","r","i","c">> >> }

\* the template of the scaffold file rel in the last init
TemplateOf(rel) ==
    IF rel = AgentsMd THEN _AGENTS_MD_TEMPLATE
    ELSE IF rel = CopilotMd THEN _copilot_instructions_md
    ELSE LET a == CHOOSE a \in AgentFiles : a[1] = args.ai.s
         IN  <<"# hatchkit AI Development Guidelines ... apply to all ">>
                \o a[3] \o <<" interactions in this project. ...">>

\* the scaffold files the last init hands to _write_file
HandedToWriteFile ==
    IF result.kind # "return" THEN {}
    ELSE {AgentsMd}
            \cup (IF args.ai = None THEN {}
                  ELSE {a[2] : a \in {a \in AgentFiles : a[1] = args.ai.s}})

\* C13: for every scaffold file init writes: a file that exists is left with
\* its content when --force is not given, however often init runs, and is
\* given the content of its template when --force is given; the scaffold
\* files a run does not write keep their content.
C13_SkipOrOverwrite ==
    op = "init"
    => \A p \in Paths :
          p[2] \in ScaffoldFiles
          => IF p[1] = TargetDir /\ p[2] \in HandedToWriteFile
                /\ (args.force \/ ~args.fs[p].exists)
             THEN fs[p] = File(TemplateOf(p[2]))
             ELSE fs[p] = args.fs[p]

\* the second run, without --force: the content the user gave AGENTS.md is
\* kept, the command file that was missing is written
C13_Witness ==
    /\ op = "init" /\ runs = 2 /\ ~args.force /\ args.ai = StrVal(Claude)
    /\ args.fs[<<Cwd, AgentsMd>>] = File(<<"custom content">>)
    /\ fs[<<Cwd, AgentsMd>>] = File(<<"custom content">>)
    /\ ~args.fs[<<Cwd, ClaudeMd>>].exists
    /\ fs[<<Cwd, ClaudeMd>>].exists

\* the .gitignore of the target directory, before and after the last init
GitignoreBefore == args.fs[<<TargetDir, Gitignore>>]
GitignoreAfter == fs[<<TargetDir, Gitignore>>]
Markers(file) == Cardinality(Occurrences(file.text, Marker))

\* C14 as stated: every init run, whatever its --force and --ai, in a
\* directory whose .gitignore has no marker leaves the marker there exactly
\* once.
C14_EveryRunLeavesOneMarker ==
    (op = "init" /\ GitignoreBefore.exists /\ Markers(GitignoreBefore) = 0)
    => Markers(GitignoreAfter) = 1

\* C14: in a target directory that has a .gitignore, an init run that passes
\* the validation of --ai appends the hatchkit lines when the marker is not
\* there, which leaves the marker exactly once; a run that finds the marker,
\* and a run rejected for its --ai value, leave .gitignore as it is.
C14_MarkerAppendedOnce ==
    (op = "init" /\ GitignoreBefore.exists)
    => IF result.kind = "return" /\ Markers(GitignoreBefore) = 0
       THEN /\ GitignoreAfter =
                  File(GitignoreBefore.text \o <<"\n">> \o _GITIGNORE_ADDITIONS)
            /\ Markers(GitignoreAfter) = 1
       ELSE GitignoreAfter = GitignoreBefore

\* the second run, with --force and an agent, finds the lines of the first
\* and leaves .gitignore alone
C14_Witness ==
    /\ op = "init" /\ runs = 2 /\ args.force /\ args.ai = StrVal(Gemini)
    /\ result.kind = "return"
    /\ GitignoreBefore = File(<<"*",".","p","y","c","\n">> \o <<"\n">> \o _GITIGNORE_ADDITIONS)
    /\ GitignoreAfter = GitignoreBefore
    /\ Markers(GitignoreAfter) = 1

\* C15 as stated: init with an --ai value outside the six supported names
\* exits with a non-zero status and leaves every file as it was.
C15_UnsupportedAgentRejected ==
    (op = "init" /\ args.ai # None /\ args.ai.s \notin supported_agents)
    => /\ ExitStatus(result) # 0
       /\ fs = args.fs

\* C16 as stated: after init --here --ai claude has succeeded, both
\* .claude/commands/hatchkit.md and .claude/commands/hatchkit.prfix.md exist
\* in the target directory.
C16_ClaudeWritesBothCommands ==
    (op = "init" /\ args.here /\ args.ai = StrVal(Claude) /\ result.kind = "return")
    => /\ fs[<<Cwd, ClaudeMd>>].exists
       /\ fs[<<Cwd, ClaudePrfixMd>>].exists

\* the calls that hand back what _run_graphql returns
PlainGraphqlOps == {"_run_graphql", "resolve_thread", "reply_to_thread"}

\* C23: _run_graphql returns the parsed response if and only if the response
\* has no errors key at all: with the key present, even with an empty list
\* and beside valid data, the call prints the GraphQL error and exits with
\* status 1.
C23_ErrorsKeyAloneFails ==
    (op \in PlainGraphqlOps /\ GotJson)
    => IF "errors" \in DOMAIN Response
       THEN /\ result = Exit(1)
            /\ out # <<>> /\ out[Len(out)].text[1] = "GraphQL error: "
       ELSE result = Return(Response)

\* an empty errors list beside data: the call exits, its message names no
\* error
C23_Witness ==
    /\ op = "_run_graphql" /\ GotJson
    /\ "data" \in DOMAIN Response
    /\ "errors" \in DOMAIN Response /\ Response.errors = <<>>
    /\ result = Exit(1)
    /\ out = <<Rprint(<<"GraphQL error: ">>)>>

\* the service calls of the last command, by name
StepsOf(fn) == {i \in DOMAIN steps : steps[i].fn = fn}

\* C22 as stated: pr threads looks at the remote only when --owner or --repo
\* is missing and asks for the current PR only when --pr is missing, and an
\* owner, repo or PR number given on the command line is the one passed to
\* fetch_review_threads, never a detected one.
C22_ExplicitOptionsKept ==
    op = "pr threads"
    => /\ StepsOf("get_repo_info") # {} => (args.owner = None \/ args.repo = None)
       /\ StepsOf("get_pr_info") # {} => args.pr = None
       /\ \A i \in RunsOf(ThreadsQuery) :
             /\ args.owner # None => calls[i].argv[7] = <<"owner", "=">> \o args.owner.s
             /\ args.repo # None => calls[i].argv[9] = <<"repo", "=">> \o args.repo.s
             /\ args.pr # None => calls[i].argv[11] = <<"pr", "=">> \o IntToStr(args.pr.n)

\* the prints of the last command that went to the standard output
OnStdout == {i \in DOMAIN out : out[i].stream = "stdout"}

\* C21 as stated: in every pr command, once a call of a lower layer has
\* failed nothing is written to the standard output: the result is printed
\* only after every service call has returned, and the error messages go
\* elsewhere.
C21_NothingOnStdoutAfterFailure ==
    (op \in PrCommands /\ result.kind # "return") => OnStdout = {}

===========================================================================
